---- MODULE Spec2Model ----
(***************************************************************************)
(* Video playback UI layer of khmerzoon-app.                               *)
(*                                                                         *)
(*   - useNativeMobile / getNativePlatform  (src/src/hooks/useNativeMobile) *)
(*   - VideoPlayer, the router component    (src/src/components/VideoPlayer)*)
(*   - MobileVideoPlayer                    (src/src/components/player/...) *)
(*                                                                         *)
(* React is modelled by what it does to the component: a render computes   *)
(* the committed view from props and state, the passive effects of that    *)
(* render then run in declaration order with the values the render closed  *)
(* over, the state updates they queue are applied in order, and a changed  *)
(* state asks for another render.                                          *)
(***************************************************************************)
EXTENDS Integers, Sequences, FiniteSets, TLC

None == "undefined"
Null == "null"

\* ------------------------------------------------------------------------
\* Strings whose letters matter (source_type) are sequences of characters;
\* NoString stands for a missing (undefined / null) string of that kind.
\* ------------------------------------------------------------------------
NoString == <<"undefined">>

UpperChars == <<"A","B","C","D","E","F","G","H","I","J","K","L","M",
                "N","O","P","Q","R","S","T","U","V","W","X","Y","Z">>
LowerChars == <<"a","b","c","d","e","f","g","h","i","j","k","l","m",
                "n","o","p","q","r","s","t","u","v","w","x","y","z">>

\* String.prototype.toLowerCase, one character
LowerChar(c) ==
  IF \E i \in 1..Len(UpperChars) : UpperChars[i] = c
  THEN LowerChars[CHOOSE i \in 1..Len(UpperChars) : UpperChars[i] = c]
  ELSE c

\* String.prototype.toLowerCase
toLowerCase(s) == [i \in 1..Len(s) |-> LowerChar(s[i])]

\* JavaScript truthiness of a url: string | null | undefined
Truthy(x) == x # None /\ x # Null /\ x # ""

\* ------------------------------------------------------------------------
\* The content catalog: video source descriptors, immutable view-model
\* inputs identified by their id.  quality_urls lists the values of the
\* per-quality mapping in insertion order (has_quality_urls: the mapping is
\* present, possibly empty).  The model runs against each of the catalogs
\* below; u1 and u6 are two long URLs that agree on their first 50
\* characters, every other URL is shorter.
\* ------------------------------------------------------------------------
SourceIds == {"s1", "s2", "s3"}
CatalogIds == {"plain", "adaptive", "nourl", "oddtype"}

Src(id, url, hasq, q, type, def) ==
  [id |-> id, url |-> url, has_quality_urls |-> hasq, quality_urls |-> q,
   source_type |-> type, is_default |-> def]

Catalogs ==
  [c \in CatalogIds |->
    CASE c = "plain" ->
           [id \in SourceIds |->
             CASE id = "s1" -> Src(id, "u1", FALSE, <<>>, <<"H","L","S">>, FALSE)
               [] id = "s2" -> Src(id, None, TRUE, <<"q1", "q2">>, <<"m","p","4">>, TRUE)
               [] id = "s3" -> Src(id, "u3", FALSE, <<>>, <<"I","f","r","a","m","e">>, FALSE)]
      [] c = "adaptive" ->
           [id \in SourceIds |->
             CASE id = "s1" -> Src(id, "u1", TRUE, <<"q6">>, <<"D","a","s","h">>, FALSE)
               [] id = "s2" -> Src(id, "u6", FALSE, <<>>, <<"m","3","u","8">>, FALSE)
               [] id = "s3" -> Src(id, "u8", FALSE, <<>>, <<"e","m","b","e","d">>, TRUE)]
      [] c = "nourl" ->
           [id \in SourceIds |->
             CASE id = "s1" -> Src(id, "", TRUE, <<>>, <<"d","a","s","h">>, FALSE)
               [] id = "s2" -> Src(id, None, TRUE, <<"", "q7">>, <<"M","P","4">>, TRUE)
               [] id = "s3" -> Src(id, None, FALSE, <<>>, <<"h","l","s">>, FALSE)]
      [] c = "oddtype" ->
           [id \in SourceIds |->
             CASE id = "s1" -> Src(id, "u1", FALSE, <<>>, NoString, FALSE)
               [] id = "s2" -> Src(id, "u2", FALSE, <<>>, <<"W","e","b","M">>, TRUE)
               [] id = "s3" -> Src(id, "u3", FALSE, <<>>, <<>>, FALSE)]]

\* mobileVideoUrl.substring(0, 50) on the catalogs' URLs
UrlPrefix(u) == IF u \in {"u1", "u6"} THEN "u1u6-prefix" ELSE u

MaxSources == 2

EpisodeIds == {"e1", "e2"}
MovieIds == {"m1"}
Platforms == {"android", "ios", "web"}
SourceTypes == {"mp4", "hls", "dash"}

\* the videoSources arrays a parent can pass: up to MaxSources distinct sources
SourceLists ==
  {q \in UNION {[1..n -> SourceIds] : n \in 0..MaxSources} :
     \A i, j \in 1..Len(q) : i # j => q[i] # q[j]}

VARIABLES
  catalogId,          \* which catalog the backend serves
  isNativeP,          \* Capacitor.isNativePlatform()
  platform,           \* Capacitor.getPlatform()
  videoSources,       \* prop: sequence of source ids
  sourcesFresh,       \* the videoSources array is a new object since the effects ran
  currentEpisodeId,   \* prop
  movieId,            \* prop
  hasOnEpisodeSelect, \* prop onEpisodeSelect supplied
  mobileVideoUrl,     \* useState
  mobileSourceType,   \* useState
  isLoadingMobileUrl, \* useState
  useShakafallback,   \* useState
  lastFetchedRef,     \* useRef
  prevEpisodeIdRef,   \* useRef
  phase,              \* "dirty": render due, "committed": effects due, "idle"
  rendered,           \* the committed view
  effDeps,            \* dependency values the effects last ran with
  child               \* the mounted MobileVideoPlayer, seen from the router

routerVars == <<catalogId, isNativeP, platform, videoSources, sourcesFresh, currentEpisodeId,
                movieId, hasOnEpisodeSelect, mobileVideoUrl, mobileSourceType,
                isLoadingMobileUrl, useShakafallback, lastFetchedRef,
                prevEpisodeIdRef, phase, rendered, effDeps, child>>

\* MobileVideoPlayer.tsx: fullscreen
VARIABLES
  fsNative,        \* Capacitor.isNativePlatform(), read by toggleFullscreen
  fsApi,           \* the fullscreen API the WebView has: "standard", "webkit", "none"
  isFullscreen,    \* useState
  cbIsFullscreen,  \* isFullscreen of the last render (what the callbacks and
                   \* the body-class effect closed over)
  containerFs,     \* container carries class mobile-video-fullscreen
  bodyFs,          \* body carries class mobile-video-fullscreen-active
  orientation,     \* what ScreenOrientation last set
  webFs,           \* document.fullscreenElement is the container
  unlockTimer,     \* the 500 ms ScreenOrientation.unlock timer is pending
  toggles          \* toggleFullscreen invocations, by slot

fsVars == <<fsNative, fsApi, isFullscreen, cbIsFullscreen, containerFs, bodyFs,
            orientation, webFs, unlockTimer, toggles>>

\* MobileVideoPlayer.tsx: the init effect (initPlayer, cleanupPlayer)
VARIABLES
  mvMounted,        \* the component is mounted
  propVideoUrl,     \* prop
  propSourceType,   \* prop
  browserSupported, \* shaka.Player.isBrowserSupported()
  runs,             \* initPlayer invocations, in order
  players,          \* players[i]: the shaka.Player run i created
  shakaPlayerRef,   \* useRef: 0 is null, i is players[i]
  effectCleanups,   \* players whose destroy() an effect cleanup awaits
  videoSrc,         \* video.src
  isLoading         \* useState

initVars == <<mvMounted, propVideoUrl, propSourceType, browserSupported, runs, players,
              shakaPlayerRef, effectCleanups, videoSrc, isLoading>>

\* MobileVideoPlayer.tsx: playback, app lifecycle, controls overlay
VARIABLES
  pbNative,            \* Capacitor.isNativePlatform(), read by the lifecycle effect
  pbMounted,           \* the component is mounted
  appActive,           \* the app is in the foreground
  paused,              \* video.paused
  isPlaying,           \* useState, set by the play / pause listeners
  cbIsPlaying,         \* isPlaying of the last render (closed over by
                       \* resetControlsTimeout)
  showControls,        \* useState
  controlsTimeoutRef,  \* the pending hide timer and the isPlaying it closed over
  playerLoaded,        \* initPlayer has passed player.load
  lastOp,              \* the operation that made the last step
  pausedByLifecycle    \* the lifecycle handler paused the video and the user
                       \* has not pressed play since

pbVars == <<pbNative, pbMounted, appActive, paused, isPlaying, cbIsPlaying,
            showControls, controlsTimeoutRef, playerLoaded, lastOp,
            pausedByLifecycle>>

mobileVars == <<fsVars, initVars, pbVars>>

notFs == <<routerVars, initVars, pbVars>>
notInit == <<routerVars, fsVars, pbVars>>
notPb == <<routerVars, fsVars, initVars>>

vars == <<routerVars, mobileVars>>

\* ------------------------------------------------------------------------
\* useNativeMobile.tsx
\* ------------------------------------------------------------------------
useNativeMobileWebIffNotNative(native, plat) ==
  [isNative  |-> native,
   platform  |-> plat,
   isAndroid |-> native /\ plat = "android",
   isIOS     |-> native /\ plat = "ios",
   isWeb     |-> ~native]

useNativeMobile(native, plat) ==
  [isNative  |-> native,
   platform  |-> plat,
   isAndroid |-> native /\ plat = "android",
   isIOS     |-> native /\ plat = "ios",
   isWeb     |-> ~native \/ plat = "web"]

getNativePlatform(native, plat) ==
  IF ~native THEN "web"
  ELSE IF plat = "android" THEN "android"
  ELSE IF plat = "ios" THEN "ios"
  ELSE "web"

hook == useNativeMobile(isNativeP, platform)

Catalog == Catalogs[catalogId]

\* ------------------------------------------------------------------------
\* VideoPlayer.tsx: the URL-resolution effect's pieces
\* ------------------------------------------------------------------------
\* videoSources.find(s => s.is_default) || videoSources[0]
DefaultSourceFirstOnly(srcs) == Catalog[srcs[1]]

DefaultSource(srcs) ==
  IF \E i \in 1..Len(srcs) : Catalog[srcs[i]].is_default
  THEN Catalog[srcs[CHOOSE i \in 1..Len(srcs) :
                      /\ Catalog[srcs[i]].is_default
                      /\ \A j \in 1..(i - 1) : ~Catalog[srcs[j]].is_default]]
  ELSE Catalog[srcs[1]]

\* `${currentEpisodeId || movieId}-${defaultSource.id}`
FetchKey(ep, mv, src) == (IF ep # None THEN ep ELSE mv) \o "-" \o src.id

\* (defaultSource.source_type || "").toLowerCase()
SourceTypeNoLower(src) ==
  IF src.source_type = NoString THEN <<>> ELSE src.source_type

SourceTypeOf(src) ==
  toLowerCase(IF src.source_type = NoString THEN <<>> ELSE src.source_type)

IsIframeOrEmbed(sourceType) ==
  sourceType = <<"i","f","r","a","m","e">> \/ sourceType = <<"e","m","b","e","d">>

\* the setMobileSourceType chain
MobileSourceTypeDefaultMp4(sourceType) ==
  IF sourceType = <<"h","l","s">> \/ sourceType = <<"m","3","u","8">> THEN "hls"
  ELSE IF sourceType = <<"d","a","s","h">> THEN "dash"
  ELSE "mp4"

MobileSourceTypeOf(sourceType) ==
  IF sourceType = <<"h","l","s">> \/ sourceType = <<"m","3","u","8">> THEN "hls"
  ELSE IF sourceType = <<"d","a","s","h">> THEN "dash"
  ELSE IF sourceType = <<"m","p","4">> THEN "mp4"
  ELSE "hls"

\* Object.values(defaultSource.quality_urls)[0]
FirstQualityUrl(src) ==
  IF Len(src.quality_urls) > 0 THEN src.quality_urls[1] ELSE None

\* The component's state and refs as one record, so that the updates an
\* effect queues are applied in order.
CurState ==
  [url |-> mobileVideoUrl, type |-> mobileSourceType,
   loading |-> isLoadingMobileUrl, fb |-> useShakafallback,
   last |-> lastFetchedRef, prev |-> prevEpisodeIdRef]

\* "Reset when episode changes" effect body
ResetEffect(s) ==
  IF s.prev # currentEpisodeId
  THEN [s EXCEPT !.prev = currentEpisodeId, !.last = Null, !.url = Null,
                 !.loading = TRUE, !.fb = FALSE]
  ELSE s

\* the URL-resolution effect without lastFetchedRef.current = fetchKey in
\* its direct-url branch
UrlEffectKeyNotRecorded(s, cUrl, cFb) ==
  IF ~hook.isNative \/ ~hook.isAndroid THEN s
  ELSE IF Len(videoSources) = 0
  THEN [s EXCEPT !.url = Null, !.loading = FALSE, !.fb = FALSE]
  ELSE
    LET defaultSource == DefaultSource(videoSources)
        fetchKey == FetchKey(currentEpisodeId, movieId, defaultSource)
        sourceType == SourceTypeOf(defaultSource)
    IN
      IF s.last = fetchKey /\ (Truthy(cUrl) \/ cFb)
      THEN [s EXCEPT !.loading = FALSE]
      ELSE IF IsIframeOrEmbed(sourceType)
      THEN [s EXCEPT !.url = Null, !.fb = TRUE, !.loading = FALSE,
                     !.last = fetchKey]
      ELSE
        LET t == [s EXCEPT !.type = MobileSourceTypeOf(sourceType)]
        IN
          IF Truthy(defaultSource.url)
          THEN [t EXCEPT !.url = defaultSource.url, !.fb = FALSE,
                         !.loading = FALSE]
          ELSE IF defaultSource.has_quality_urls
          THEN IF Truthy(FirstQualityUrl(defaultSource))
               THEN [t EXCEPT !.url = FirstQualityUrl(defaultSource),
                              !.fb = FALSE, !.last = fetchKey,
                              !.loading = FALSE]
               ELSE [t EXCEPT !.url = Null, !.fb = TRUE, !.last = fetchKey,
                              !.loading = FALSE]
          ELSE [t EXCEPT !.url = Null, !.fb = TRUE, !.last = fetchKey,
                         !.loading = FALSE]

\* URL-resolution effect body; cUrl and cFb are the mobileVideoUrl and
\* useShakafallback the render closed over.
UrlEffect(s, cUrl, cFb) ==
  IF ~hook.isNative \/ ~hook.isAndroid THEN s
  ELSE IF Len(videoSources) = 0
  THEN [s EXCEPT !.url = Null, !.loading = FALSE, !.fb = FALSE]
  ELSE
    LET defaultSource == DefaultSource(videoSources)
        fetchKey == FetchKey(currentEpisodeId, movieId, defaultSource)
        sourceType == SourceTypeOf(defaultSource)
    IN
      IF s.last = fetchKey /\ (Truthy(cUrl) \/ cFb)
      THEN [s EXCEPT !.loading = FALSE]
      ELSE IF IsIframeOrEmbed(sourceType)
      THEN [s EXCEPT !.url = Null, !.fb = TRUE, !.loading = FALSE,
                     !.last = fetchKey]
      ELSE
        LET t == [s EXCEPT !.type = MobileSourceTypeOf(sourceType)]
        IN
          IF Truthy(defaultSource.url)
          THEN [t EXCEPT !.url = defaultSource.url, !.fb = FALSE,
                         !.last = fetchKey, !.loading = FALSE]
          ELSE IF defaultSource.has_quality_urls
          THEN IF Truthy(FirstQualityUrl(defaultSource))
               THEN [t EXCEPT !.url = FirstQualityUrl(defaultSource),
                              !.fb = FALSE, !.last = fetchKey,
                              !.loading = FALSE]
               ELSE [t EXCEPT !.url = Null, !.fb = TRUE, !.last = fetchKey,
                              !.loading = FALSE]
          ELSE [t EXCEPT !.url = Null, !.fb = TRUE, !.last = fetchKey,
                         !.loading = FALSE]

\* ------------------------------------------------------------------------
\* VideoPlayer.tsx: what a render returns
\* ------------------------------------------------------------------------
EpisodeOrMovie == IF currentEpisodeId # None THEN currentEpisodeId ELSE movieId

ShakaView ==
  [view |-> "shaka", videoUrl |-> None, sourceType |-> None,
   key |-> EpisodeOrMovie]

SpinnerView ==
  [view |-> "spinner", videoUrl |-> None, sourceType |-> None, key |-> None]

MobileView ==
  [view |-> "mobile", videoUrl |-> mobileVideoUrl,
   sourceType |-> mobileSourceType,
   key |-> "mobile-" \o EpisodeOrMovie \o "-" \o UrlPrefix(mobileVideoUrl)]

RenderViewAnyNative ==
  IF hook.isNative /\ ~useShakafallback
  THEN IF isLoadingMobileUrl THEN SpinnerView
       ELSE IF Truthy(mobileVideoUrl) THEN MobileView
       ELSE ShakaView
  ELSE ShakaView

RenderView ==
  IF hook.isNative /\ hook.isAndroid /\ ~useShakafallback
  THEN IF isLoadingMobileUrl THEN SpinnerView
       ELSE IF Truthy(mobileVideoUrl) THEN MobileView
       ELSE ShakaView
  ELSE ShakaView

NoChild ==
  [mounted |-> FALSE, key |-> None, videoUrl |-> None, sourceType |-> None,
   init |-> "none"]

\* React's reconciliation of the MobileVideoPlayer element against the
\* mounted instance c: same key keeps the instance (a changed videoUrl /
\* sourceType re-runs its init effect), another key or another element type
\* mounts a new one.
ChildAfter(c, v) ==
  IF v.view # "mobile" THEN NoChild
  ELSE IF c.mounted /\ c.key = v.key /\ c.videoUrl = v.videoUrl
          /\ c.sourceType = v.sourceType
  THEN c
  ELSE [mounted |-> TRUE, key |-> v.key, videoUrl |-> v.videoUrl,
        sourceType |-> v.sourceType, init |-> "pending"]

\* ------------------------------------------------------------------------
\* The router's state machine
\* ------------------------------------------------------------------------
NoDeps == [ran |-> FALSE, ep |-> None, url |-> Null, fb |-> FALSE]

\* the dependency values a render hands to the effects (the props other
\* than currentEpisodeId are tracked by sourcesFresh)
CurDeps ==
  [ran |-> TRUE, ep |-> currentEpisodeId, url |-> mobileVideoUrl,
   fb |-> useShakafallback]

RouterInit ==
  /\ catalogId \in CatalogIds
  /\ isNativeP \in BOOLEAN
  /\ platform \in Platforms
  /\ videoSources \in SourceLists
  /\ sourcesFresh = FALSE
  /\ currentEpisodeId \in EpisodeIds \cup {None}
  /\ movieId \in MovieIds
  /\ hasOnEpisodeSelect \in BOOLEAN
  /\ mobileVideoUrl = Null
  /\ mobileSourceType = "hls"
  /\ isLoadingMobileUrl = FALSE
  /\ useShakafallback = FALSE
  /\ lastFetchedRef = Null
  /\ prevEpisodeIdRef = currentEpisodeId
  /\ phase = "dirty"
  /\ rendered = [view |-> "none", videoUrl |-> None, sourceType |-> None,
                 key |-> None]
  /\ effDeps = NoDeps
  /\ child = NoChild

propsVars == <<catalogId, isNativeP, platform, movieId, hasOnEpisodeSelect>>
stateVars == <<mobileVideoUrl, mobileSourceType, isLoadingMobileUrl,
               useShakafallback, lastFetchedRef, prevEpisodeIdRef>>

Mounted == rendered.view # "none"

\* A render pass of VideoPlayer with the (new) props and state, committed.
Commit ==
  /\ rendered' = RenderView'
  /\ child' = ChildAfter(child, RenderView')
  /\ phase' = "committed"

\* The first render, and the re-render React schedules for state updates
\* queued by the effects.
Render ==
  /\ phase = "dirty"
  /\ UNCHANGED <<mobileVars, propsVars, stateVars, videoSources, sourcesFresh,
                 currentEpisodeId, effDeps>>
  /\ Commit

\* the state the effects of the last render leave, the reset effect's
\* updates applied before the URL-resolution effect's
EffectsResult ==
  LET runReset == ~effDeps.ran \/ effDeps.ep # currentEpisodeId
      runUrl == ~effDeps.ran \/ sourcesFresh \/ effDeps # CurDeps
      s1 == IF runReset THEN ResetEffect(CurState) ELSE CurState
  IN IF runUrl
     THEN UrlEffect(s1, mobileVideoUrl, useShakafallback)
     ELSE s1

\* The passive effects of the last render, in declaration order: the
\* episode-reset effect (deps [currentEpisodeId]) and the URL-resolution
\* effect (deps [isNative, isAndroid, videoSources, currentEpisodeId,
\* movieId, mobileVideoUrl, useShakafallback]).
RunEffects ==
  /\ phase = "committed"
  /\ \E s2 \in {EffectsResult} :
        /\ mobileVideoUrl' = s2.url
        /\ mobileSourceType' = s2.type
        /\ isLoadingMobileUrl' = s2.loading
        /\ useShakafallback' = s2.fb
        /\ lastFetchedRef' = s2.last
        /\ prevEpisodeIdRef' = s2.prev
        /\ phase' = IF <<s2.url, s2.type, s2.loading, s2.fb>> #
                       <<mobileVideoUrl, mobileSourceType,
                         isLoadingMobileUrl, useShakafallback>>
                    THEN "dirty" ELSE "idle"
  /\ effDeps' = CurDeps
  /\ sourcesFresh' = FALSE
  /\ UNCHANGED <<mobileVars, propsVars, videoSources, currentEpisodeId, rendered, child>>

\* The parent renders VideoPlayer with another episode and / or other
\* sources; VideoPlayer renders in the same pass.
PropsChange(ep, srcs) ==
  /\ Mounted /\ phase # "committed"
  /\ <<ep, srcs>> # <<currentEpisodeId, videoSources>>
  /\ currentEpisodeId' = ep
  /\ videoSources' = srcs
  /\ sourcesFresh' = (sourcesFresh \/ srcs # videoSources)
  /\ UNCHANGED <<mobileVars, propsVars, stateVars, effDeps>>
  /\ Commit

\* The parent re-renders and passes an equal videoSources array that is a
\* new object.
ParentRerender ==
  /\ Mounted /\ phase # "committed"
  /\ sourcesFresh' = TRUE
  /\ UNCHANGED <<mobileVars, propsVars, stateVars, videoSources, currentEpisodeId, effDeps>>
  /\ Commit

\* handleEpisodeSelect without its `if (onEpisodeSelect)` guard
HandleEpisodeSelectUnguarded(e, sync, srcs) ==
  /\ child.mounted /\ phase # "committed"
  /\ lastFetchedRef' = Null
  /\ mobileVideoUrl' = Null
  /\ isLoadingMobileUrl' = TRUE
  /\ useShakafallback' = FALSE
  /\ currentEpisodeId' = IF sync /\ hasOnEpisodeSelect THEN e ELSE currentEpisodeId
  /\ videoSources' = IF sync /\ hasOnEpisodeSelect THEN srcs ELSE videoSources
  /\ sourcesFresh' = (sourcesFresh \/ (sync /\ hasOnEpisodeSelect /\ srcs # videoSources))
  /\ UNCHANGED <<mobileVars, propsVars, mobileSourceType, prevEpisodeIdRef,
                 effDeps>>
  /\ Commit

\* handleEpisodeSelect, called by the mounted MobileVideoPlayer's episode
\* drawer.  The parent's onEpisodeSelect either changes the props in the
\* same batch (sync) or leaves them for later; React renders at the end of
\* the event.
HandleEpisodeSelect(e, sync, srcs) ==
  /\ child.mounted /\ phase # "committed"
  /\ IF hasOnEpisodeSelect
     THEN /\ lastFetchedRef' = Null
          /\ mobileVideoUrl' = Null
          /\ isLoadingMobileUrl' = TRUE
          /\ useShakafallback' = FALSE
          /\ currentEpisodeId' = IF sync THEN e ELSE currentEpisodeId
          /\ videoSources' = IF sync THEN srcs ELSE videoSources
          /\ sourcesFresh' = (sourcesFresh \/ (sync /\ srcs # videoSources))
          /\ UNCHANGED <<mobileVars, propsVars, mobileSourceType, prevEpisodeIdRef,
                         effDeps>>
          /\ Commit
     ELSE UNCHANGED vars

\* MobileVideoPlayer.initPlayer, seen from the router: it ends with the
\* stream handed to the adaptive player (hls / dash) or to the media element
\* (mp4), or, the adaptive player having failed, with the plain media
\* element as fallback.  MobileVideoPlayer takes no error callback, and initPlayer's
\* catch calls nothing of the router.
ChildInitDone ==
  /\ child.mounted /\ child.init = "pending"
  /\ child' = [child EXCEPT !.init = "loaded"]
  /\ UNCHANGED <<mobileVars, propsVars, stateVars, videoSources, sourcesFresh,
                 currentEpisodeId, phase, rendered, effDeps>>

ChildInitFailReportsUp ==
  /\ child.mounted /\ child.init = "pending" /\ child.sourceType # "mp4"
  /\ child' = [child EXCEPT !.init = "fallback"]
  /\ useShakafallback' = TRUE
  /\ phase' = IF phase = "committed" THEN phase ELSE "dirty"
  /\ UNCHANGED <<mobileVars, propsVars, mobileVideoUrl, mobileSourceType,
                 isLoadingMobileUrl, lastFetchedRef, prevEpisodeIdRef,
                 videoSources, sourcesFresh, currentEpisodeId, rendered,
                 effDeps>>

ChildInitFail ==
  /\ child.mounted /\ child.init = "pending" /\ child.sourceType # "mp4"
  /\ child' = [child EXCEPT !.init = "fallback"]
  /\ UNCHANGED <<mobileVars, propsVars, stateVars, videoSources, sourcesFresh,
                 currentEpisodeId, phase, rendered, effDeps>>

RouterNext ==
  \/ Render
  \/ RunEffects
  \/ \E ep \in EpisodeIds \cup {None}, srcs \in SourceLists : PropsChange(ep, srcs)
  \/ ParentRerender
  \/ \E e \in EpisodeIds, sync \in BOOLEAN, srcs \in SourceLists :
       HandleEpisodeSelect(e, sync, srcs)
  \/ ChildInitDone
  \/ ChildInitFail

\* ------------------------------------------------------------------------
\* MobileVideoPlayer.tsx: toggleFullscreen and the body-class effect
\* ------------------------------------------------------------------------
MaxToggles == 2

ToggleSlots == 1..MaxToggles

IdleToggle == [pc |-> "idle", mode |-> "none"]

FsInit ==
  /\ fsNative \in BOOLEAN
  /\ fsApi \in {"standard", "webkit", "both", "none"}
  /\ isFullscreen = FALSE
  /\ cbIsFullscreen = FALSE
  /\ containerFs = FALSE
  /\ bodyFs = FALSE
  /\ orientation = "unlocked"
  /\ webFs = FALSE
  /\ unlockTimer = FALSE
  /\ toggles = [i \in ToggleSlots |-> IdleToggle]

\* the fullscreen part of a component nobody toggles
FsIdle ==
  /\ fsNative = TRUE
  /\ fsApi = "standard"
  /\ isFullscreen = FALSE
  /\ cbIsFullscreen = FALSE
  /\ containerFs = FALSE
  /\ bodyFs = FALSE
  /\ orientation = "unlocked"
  /\ webFs = FALSE
  /\ unlockTimer = FALSE
  /\ toggles = [i \in ToggleSlots |-> IdleToggle]

NoToggleInFlight == \A i \in ToggleSlots : toggles[i].pc = "idle"

\* setIsFullscreen(v), which ends an invocation
Finish(i, v) ==
  /\ isFullscreen' = v
  /\ toggles' = [toggles EXCEPT ![i] = IdleToggle]

\* "Add fullscreen class", then the web fullscreen API
AddClassesAndRequest(i) ==
  /\ containerFs' = TRUE
  /\ bodyFs' = TRUE
  /\ IF fsApi = "none"
     THEN Finish(i, TRUE)
     ELSE /\ toggles' = [toggles EXCEPT ![i] = [pc |-> "reqfs_wait", mode |-> "enter"]]
          /\ UNCHANGED isFullscreen

\* after the web fullscreen exit: the portrait lock on a native platform
AfterExitFullscreen(i) ==
  IF fsNative
  THEN /\ toggles' = [toggles EXCEPT ![i] = [pc |-> "portrait_wait", mode |-> "exit"]]
       /\ UNCHANGED isFullscreen
  ELSE Finish(i, FALSE)

\* toggleFullscreen is called: it runs up to its first await with the
\* isFullscreen its callback closed over.
ToggleStart(i) ==
  /\ toggles[i].pc = "idle"
  /\ IF ~cbIsFullscreen
     THEN IF fsNative
          THEN /\ toggles' = [toggles EXCEPT ![i] = [pc |-> "lock_wait", mode |-> "enter"]]
               /\ UNCHANGED <<isFullscreen, containerFs, bodyFs>>
          ELSE AddClassesAndRequest(i)
     ELSE /\ containerFs' = FALSE
          /\ bodyFs' = FALSE
          /\ IF (fsApi \in {"standard", "both"} /\ webFs) \/ fsApi \in {"webkit", "both"}
             THEN /\ toggles' = [toggles EXCEPT ![i] = [pc |-> "exitfs_wait", mode |-> "exit"]]
                  /\ UNCHANGED isFullscreen
             ELSE AfterExitFullscreen(i)
  /\ UNCHANGED <<fsNative, fsApi, cbIsFullscreen, orientation, webFs, unlockTimer>>
  /\ UNCHANGED notFs

\* ScreenOrientation.lock({ orientation: 'landscape' }) resolves or rejects;
\* a rejection escapes the handler, which then ends in its outer catch
LockSettlesUncaught(i, ok) ==
  /\ toggles[i].pc = "lock_wait"
  /\ orientation' = IF ok THEN "landscape" ELSE orientation
  /\ IF ok
     THEN AddClassesAndRequest(i)
     ELSE /\ toggles' = [toggles EXCEPT ![i] = IdleToggle]
          /\ UNCHANGED <<isFullscreen, containerFs, bodyFs>>
  /\ UNCHANGED <<fsNative, fsApi, cbIsFullscreen, webFs, unlockTimer>>
  /\ UNCHANGED notFs

\* ScreenOrientation.lock({ orientation: 'landscape' }) resolves or rejects
LockSettles(i, ok) ==
  /\ toggles[i].pc = "lock_wait"
  /\ orientation' = IF ok THEN "landscape" ELSE orientation
  /\ AddClassesAndRequest(i)
  /\ UNCHANGED <<fsNative, fsApi, cbIsFullscreen, webFs, unlockTimer>>
  /\ UNCHANGED notFs

\* container.requestFullscreen / webkitRequestFullscreen resolves or rejects
RequestFullscreenSettles(i, ok) ==
  /\ toggles[i].pc = "reqfs_wait"
  /\ webFs' = (webFs \/ ok)
  /\ Finish(i, TRUE)
  /\ UNCHANGED <<fsNative, fsApi, cbIsFullscreen, containerFs, bodyFs,
                 orientation, unlockTimer>>
  /\ UNCHANGED notFs

\* document.exitFullscreen / webkitExitFullscreen resolves or rejects
ExitFullscreenSettles(i, ok) ==
  /\ toggles[i].pc = "exitfs_wait"
  /\ webFs' = IF ok THEN FALSE ELSE webFs
  /\ AfterExitFullscreen(i)
  /\ UNCHANGED <<fsNative, fsApi, cbIsFullscreen, containerFs, bodyFs,
                 orientation, unlockTimer>>
  /\ UNCHANGED notFs

\* ScreenOrientation.lock({ orientation: 'portrait' }) resolves (and the
\* unlock timer is set) or rejects
PortraitLockSettles(i, ok) ==
  /\ toggles[i].pc = "portrait_wait"
  /\ orientation' = IF ok THEN "portrait" ELSE orientation
  /\ unlockTimer' = (unlockTimer \/ ok)
  /\ Finish(i, FALSE)
  /\ UNCHANGED <<fsNative, fsApi, cbIsFullscreen, containerFs, bodyFs, webFs>>
  /\ UNCHANGED notFs

\* the 500 ms timer: ScreenOrientation.unlock() resolves or rejects
UnlockTimerFires(ok) ==
  /\ unlockTimer
  /\ unlockTimer' = FALSE
  /\ orientation' = IF ok THEN "unlocked" ELSE orientation
  /\ UNCHANGED <<fsNative, fsApi, isFullscreen, cbIsFullscreen, containerFs,
                 bodyFs, webFs, toggles>>
  /\ UNCHANGED notFs

\* The render React schedules for a changed isFullscreen: the callbacks
\* close over the new value and the body-class effect runs.
FsRender ==
  /\ isFullscreen # cbIsFullscreen
  /\ cbIsFullscreen' = isFullscreen
  /\ bodyFs' = isFullscreen
  /\ UNCHANGED <<fsNative, fsApi, isFullscreen, containerFs, orientation,
                 webFs, unlockTimer, toggles>>
  /\ UNCHANGED notFs

\* The user presses the fullscreen button, one invocation at a time.
FsSequentialNext ==
  \/ \E i \in ToggleSlots : NoToggleInFlight /\ ToggleStart(i)
  \/ \E i \in ToggleSlots, ok \in BOOLEAN : LockSettles(i, ok)
  \/ \E i \in ToggleSlots, ok \in BOOLEAN : RequestFullscreenSettles(i, ok)
  \/ \E i \in ToggleSlots, ok \in BOOLEAN : ExitFullscreenSettles(i, ok)
  \/ \E i \in ToggleSlots, ok \in BOOLEAN : PortraitLockSettles(i, ok)
  \/ \E ok \in BOOLEAN : UnlockTimerFires(ok)
  \/ FsRender

\* The user presses the fullscreen button again while earlier invocations
\* are still awaiting; React has rendered the last isFullscreen before each
\* press.
FsOverlapNext ==
  \/ \E i \in ToggleSlots : cbIsFullscreen = isFullscreen /\ ToggleStart(i)
  \/ \E i \in ToggleSlots, ok \in BOOLEAN : LockSettles(i, ok)
  \/ \E i \in ToggleSlots, ok \in BOOLEAN : RequestFullscreenSettles(i, ok)
  \/ \E i \in ToggleSlots, ok \in BOOLEAN : ExitFullscreenSettles(i, ok)
  \/ \E i \in ToggleSlots, ok \in BOOLEAN : PortraitLockSettles(i, ok)
  \/ \E ok \in BOOLEAN : UnlockTimerFires(ok)
  \/ FsRender

\* the router part of a MobileVideoPlayer studied on its own
RouterIdle ==
  /\ catalogId = "plain"
  /\ isNativeP = TRUE
  /\ platform = "android"
  /\ videoSources = <<"s1">>
  /\ sourcesFresh = FALSE
  /\ currentEpisodeId = "e1"
  /\ movieId = "m1"
  /\ hasOnEpisodeSelect = TRUE
  /\ mobileVideoUrl = "u1"
  /\ mobileSourceType = "hls"
  /\ isLoadingMobileUrl = FALSE
  /\ useShakafallback = FALSE
  /\ lastFetchedRef = "e1-s1"
  /\ prevEpisodeIdRef = "e1"
  /\ phase = "idle"
  /\ rendered = [view |-> "mobile", videoUrl |-> "u1", sourceType |-> "hls",
                 key |-> "mobile-e1-u1u6-prefix"]
  /\ effDeps = [ran |-> TRUE, ep |-> "e1", url |-> "u1", fb |-> FALSE]
  /\ child = [mounted |-> TRUE, key |-> "mobile-e1-u1u6-prefix",
              videoUrl |-> "u1", sourceType |-> "hls", init |-> "loaded"]

\* ------------------------------------------------------------------------
\* MobileVideoPlayer.tsx: the init effect
\* ------------------------------------------------------------------------
MaxInits == 2

RunIds == 1..MaxInits

\* what VideoPlayer passes: autoplay={false}
autoplay == FALSE

MobileUrls == {"u1", "u6"}

UnusedRun ==
  [pc |-> "unused", url |-> None, type |-> None, target |-> 0,
   cleanupFailed |-> FALSE, created |-> 0, srcSets |-> 0, loads |-> 0,
   failed |-> "none", rejected |-> FALSE]

NumRuns == Cardinality({i \in RunIds : runs[i].pc # "unused"})

InitPlayerInit ==
  /\ mvMounted = TRUE
  /\ propVideoUrl = "u1"
  /\ propSourceType \in SourceTypes
  /\ browserSupported \in BOOLEAN
  /\ runs = [i \in RunIds |-> UnusedRun]
  /\ players = [i \in RunIds |-> "none"]
  /\ shakaPlayerRef = 0
  /\ effectCleanups = {}
  /\ videoSrc = ""
  /\ isLoading = TRUE

\* the init part of a component whose stream is loaded
InitPlayerIdle ==
  /\ mvMounted = TRUE
  /\ propVideoUrl = "u1"
  /\ propSourceType = "hls"
  /\ browserSupported = TRUE
  /\ runs = [i \in RunIds |-> UnusedRun]
  /\ players = [i \in RunIds |-> "none"]
  /\ shakaPlayerRef = 0
  /\ effectCleanups = {}
  /\ videoSrc = ""
  /\ isLoading = FALSE

\* initPlayer() up to its first await: the mp4 branch is synchronous, the
\* hls / dash branch calls cleanupPlayer(), which calls destroy() on the
\* player shakaPlayerRef holds, and awaits it.
StartRun(i, url, type) ==
  /\ isLoading' = TRUE
  /\ IF type = "mp4"
     THEN /\ videoSrc' = url
          /\ runs' = [runs EXCEPT ![i] =
                        [UnusedRun EXCEPT !.pc = "done", !.url = url,
                                          !.type = type, !.srcSets = 1,
                                          !.loads = 1]]
     ELSE /\ runs' = [runs EXCEPT ![i] =
                        [UnusedRun EXCEPT !.pc = "await_cleanup", !.url = url,
                                          !.type = type,
                                          !.target = shakaPlayerRef]]
          /\ UNCHANGED videoSrc

\* the init effect's first run, after mount
MountEffect ==
  /\ mvMounted /\ NumRuns = 0
  /\ StartRun(1, propVideoUrl, propSourceType)
  /\ UNCHANGED <<mvMounted, propVideoUrl, propSourceType, browserSupported, players,
                 shakaPlayerRef, effectCleanups>>
  /\ UNCHANGED notInit

\* videoUrl / sourceType change on the mounted instance: the effect's
\* cleanup calls cleanupPlayer() without awaiting it, then the effect runs
\* again.
ChangeSource(url, type) ==
  /\ mvMounted /\ NumRuns > 0 /\ NumRuns < MaxInits
  /\ <<url, type>> # <<propVideoUrl, propSourceType>>
  /\ propVideoUrl' = url
  /\ propSourceType' = type
  /\ effectCleanups' = IF shakaPlayerRef # 0
                       THEN effectCleanups \cup {shakaPlayerRef}
                       ELSE effectCleanups
  /\ StartRun(NumRuns + 1, url, type)
  /\ UNCHANGED <<mvMounted, browserSupported, players, shakaPlayerRef>>
  /\ UNCHANGED notInit

\* the failure leaves initPlayer as a rejected promise
FallbackMissing(i, r, step) ==
  /\ UNCHANGED videoSrc
  /\ runs' = [runs EXCEPT ![i] =
                [r EXCEPT !.pc = "done", !.failed = step, !.rejected = TRUE]]

\* the catch block of initPlayer: video.src = videoUrl; video.load()
Fallback(i, r, step) ==
  /\ videoSrc' = r.url
  /\ runs' = [runs EXCEPT ![i] =
                [r EXCEPT !.pc = "done", !.failed = step,
                          !.srcSets = @ + 1, !.loads = @ + 1]]

\* A destroy() that a cleanupPlayer() call awaits settles: cleanupPlayer
\* catches a rejection and sets shakaPlayerRef.current = null either way.
Destroyed(p, ok) ==
  IF p # 0 /\ ok THEN [players EXCEPT ![p] = "destroyed"] ELSE players

\* initPlayer resumes after `await cleanupPlayer()`: polyfills, support
\* check, new shaka.Player(), player.attach(video)
RunCleanupSettles(i, ok, polyfillThrows) ==
  /\ runs[i].pc = "await_cleanup"
  /\ ok \/ runs[i].target # 0
  /\ shakaPlayerRef' = IF runs[i].target # 0 THEN 0 ELSE shakaPlayerRef
  /\ LET r == [runs[i] EXCEPT !.cleanupFailed = ~ok, !.target = 0]
         ps == Destroyed(runs[i].target, ok)
     IN IF polyfillThrows
        THEN /\ Fallback(i, r, "polyfill")
             /\ players' = ps
        ELSE IF ~browserSupported
        THEN /\ videoSrc' = r.url
             /\ runs' = [runs EXCEPT ![i] =
                           [r EXCEPT !.pc = "done", !.failed = "unsupported",
                                     !.srcSets = @ + 1, !.loads = @ + 1]]
             /\ players' = ps
        ELSE /\ runs' = [runs EXCEPT ![i] =
                           [r EXCEPT !.pc = "await_attach", !.created = @ + 1]]
             /\ players' = [ps EXCEPT ![i] = "created"]
             /\ UNCHANGED videoSrc
  /\ UNCHANGED <<mvMounted, propVideoUrl, propSourceType, browserSupported,
                 effectCleanups, isLoading>>
  /\ UNCHANGED notInit

\* player.attach(video) settles; then shakaPlayerRef.current = player,
\* player.configure(...), player.load(videoUrl)
RunAttachSettles(i, ok, configureThrows) ==
  /\ runs[i].pc = "await_attach"
  /\ IF ~ok
     THEN /\ Fallback(i, runs[i], "attach")
          /\ UNCHANGED <<shakaPlayerRef, players>>
     ELSE /\ shakaPlayerRef' = i
          /\ players' = [players EXCEPT ![i] = IF @ = "created" THEN "attached" ELSE @]
          /\ IF configureThrows
             THEN Fallback(i, runs[i], "configure")
             ELSE /\ runs' = [runs EXCEPT ![i].pc = "await_load"]
                  /\ UNCHANGED videoSrc
  /\ UNCHANGED <<mvMounted, propVideoUrl, propSourceType, browserSupported,
                 effectCleanups, isLoading>>
  /\ UNCHANGED notInit

\* player.load(videoUrl) settles; autoplay is off
RunLoadSettles(i, ok) ==
  /\ runs[i].pc = "await_load"
  /\ IF ok
     THEN /\ runs' = [runs EXCEPT ![i].pc = "done"]
          /\ isLoading' = FALSE
          /\ UNCHANGED videoSrc
     ELSE /\ Fallback(i, runs[i], "load")
          /\ UNCHANGED isLoading
  /\ UNCHANGED <<mvMounted, propVideoUrl, propSourceType, browserSupported, players,
                 shakaPlayerRef, effectCleanups>>
  /\ UNCHANGED notInit

\* the destroy() an effect cleanup's cleanupPlayer() awaits settles
EffectCleanupSettles(p, ok) ==
  /\ p \in effectCleanups
  /\ effectCleanups' = effectCleanups \ {p}
  /\ players' = Destroyed(p, ok)
  /\ shakaPlayerRef' = 0
  /\ UNCHANGED <<mvMounted, propVideoUrl, propSourceType, browserSupported, runs,
                 videoSrc, isLoading>>
  /\ UNCHANGED notInit

\* Unmount: the init effect's cleanup, then the unmount effect's cleanup
\* (video.pause(); video.src = ''; cleanupPlayer()).
UnmountPlayer ==
  /\ mvMounted /\ NumRuns > 0
  /\ mvMounted' = FALSE
  /\ videoSrc' = ""
  /\ effectCleanups' = IF shakaPlayerRef # 0
                       THEN effectCleanups \cup {shakaPlayerRef}
                       ELSE effectCleanups
  /\ UNCHANGED <<propVideoUrl, propSourceType, browserSupported, runs, players,
                 shakaPlayerRef, isLoading>>
  /\ UNCHANGED notInit

InitPlayerNext ==
  \/ MountEffect
  \/ \E url \in MobileUrls, type \in SourceTypes : ChangeSource(url, type)
  \/ \E i \in RunIds, ok \in BOOLEAN, polyfillThrows \in BOOLEAN :
       RunCleanupSettles(i, ok, polyfillThrows)
  \/ \E i \in RunIds, ok \in BOOLEAN, configureThrows \in BOOLEAN :
       RunAttachSettles(i, ok, configureThrows)
  \/ \E i \in RunIds, ok \in BOOLEAN : RunLoadSettles(i, ok)
  \/ \E p \in RunIds, ok \in BOOLEAN : EffectCleanupSettles(p, ok)
  \/ UnmountPlayer

\* ------------------------------------------------------------------------
\* MobileVideoPlayer.tsx: playback, the app lifecycle, the controls overlay
\* ------------------------------------------------------------------------
PlaybackInit ==
  /\ pbNative \in BOOLEAN
  /\ pbMounted = TRUE
  /\ appActive = TRUE
  /\ paused = TRUE
  /\ isPlaying = FALSE
  /\ cbIsPlaying = FALSE
  /\ showControls = TRUE
  /\ controlsTimeoutRef = "none"
  /\ playerLoaded = FALSE
  /\ lastOp = "mount"
  /\ pausedByLifecycle = FALSE

\* the playback part of a component nobody plays
PlaybackIdle ==
  /\ pbNative = TRUE
  /\ pbMounted = TRUE
  /\ appActive = TRUE
  /\ paused = TRUE
  /\ isPlaying = FALSE
  /\ cbIsPlaying = FALSE
  /\ showControls = TRUE
  /\ controlsTimeoutRef = "none"
  /\ playerLoaded = TRUE
  /\ lastOp = "mount"
  /\ pausedByLifecycle = FALSE

\* resetControlsTimeout(): clear the pending timer, show the controls, set
\* a new timer that closes over the isPlaying of the last render
resetControlsTimeout ==
  /\ showControls' = TRUE
  /\ controlsTimeoutRef' = IF cbIsPlaying THEN "playing" ELSE "notplaying"

\* initPlayer after player.load: if (autoplay) video.play()
PlayerLoaded ==
  /\ pbMounted /\ ~playerLoaded
  /\ playerLoaded' = TRUE
  /\ paused' = IF autoplay THEN FALSE ELSE paused
  /\ isPlaying' = IF autoplay THEN TRUE ELSE isPlaying
  /\ lastOp' = "initPlayer"
  /\ UNCHANGED <<pbNative, pbMounted, appActive, cbIsPlaying, showControls,
                 controlsTimeoutRef, pausedByLifecycle>>
  /\ UNCHANGED notPb

\* The user presses a play / pause button, which the overlay offers while
\* the controls are shown; video.play() may reject.
togglePlayPause(playOk) ==
  /\ pbMounted /\ appActive /\ showControls
  /\ paused' = IF paused THEN ~playOk ELSE TRUE
  /\ pausedByLifecycle' = IF paused THEN FALSE ELSE pausedByLifecycle
  /\ resetControlsTimeout
  /\ lastOp' = "togglePlayPause"
  /\ UNCHANGED <<pbNative, pbMounted, appActive, isPlaying, cbIsPlaying,
                 playerLoaded>>
  /\ UNCHANGED notPb

\* a tap on the container (or a skip button)
ContainerClick ==
  /\ pbMounted /\ appActive
  /\ resetControlsTimeout
  /\ lastOp' = "resetControlsTimeout"
  /\ UNCHANGED <<pbNative, pbMounted, appActive, paused, isPlaying,
                 cbIsPlaying, playerLoaded, pausedByLifecycle>>
  /\ UNCHANGED notPb

\* the 3000 ms timer of resetControlsTimeout fires
ControlsTimerFires ==
  /\ controlsTimeoutRef # "none"
  /\ controlsTimeoutRef' = "none"
  /\ showControls' = IF controlsTimeoutRef = "playing" THEN FALSE ELSE showControls
  /\ lastOp' = "controlsTimeout"
  /\ UNCHANGED <<pbNative, pbMounted, appActive, paused, isPlaying,
                 cbIsPlaying, playerLoaded, pausedByLifecycle>>
  /\ UNCHANGED notPb

\* the 'play' / 'pause' listeners: setIsPlaying
MediaEvent ==
  /\ pbMounted /\ isPlaying = paused
  /\ isPlaying' = ~paused
  /\ lastOp' = "mediaEvent"
  /\ UNCHANGED <<pbNative, pbMounted, appActive, paused, cbIsPlaying,
                 showControls, controlsTimeoutRef, playerLoaded,
                 pausedByLifecycle>>
  /\ UNCHANGED notPb

\* the render for a changed isPlaying: resetControlsTimeout closes over it
PlaybackRender ==
  /\ pbMounted /\ cbIsPlaying # isPlaying
  /\ cbIsPlaying' = isPlaying
  /\ lastOp' = "render"
  /\ UNCHANGED <<pbNative, pbMounted, appActive, paused, isPlaying,
                 showControls, controlsTimeoutRef, playerLoaded,
                 pausedByLifecycle>>
  /\ UNCHANGED notPb

\* playback reaches the end of the stream
Ended ==
  /\ pbMounted /\ ~paused
  /\ paused' = TRUE
  /\ lastOp' = "ended"
  /\ UNCHANGED <<pbNative, pbMounted, appActive, isPlaying, cbIsPlaying,
                 showControls, controlsTimeoutRef, playerLoaded,
                 pausedByLifecycle>>
  /\ UNCHANGED notPb

\* the appStateChange listener resumes playback when the app is active again
appStateChangeResumes(isActive) ==
  /\ isActive # appActive
  /\ appActive' = isActive
  /\ IF pbNative /\ pbMounted
     THEN /\ paused' = ~isActive
          /\ pausedByLifecycle' = IF ~isActive /\ ~paused THEN TRUE ELSE pausedByLifecycle
     ELSE UNCHANGED <<paused, pausedByLifecycle>>
  /\ lastOp' = "appStateChange"
  /\ UNCHANGED <<pbNative, pbMounted, isPlaying, cbIsPlaying, showControls,
                 controlsTimeoutRef, playerLoaded>>
  /\ UNCHANGED notPb

\* The app goes to the background or comes back; on a native platform the
\* appStateChange listener runs:
\*   if (!isActive && videoRef.current && !videoRef.current.paused) pause()
appStateChange(isActive) ==
  /\ isActive # appActive
  /\ appActive' = isActive
  /\ IF pbNative /\ pbMounted /\ ~isActive /\ ~paused
     THEN /\ paused' = TRUE
          /\ pausedByLifecycle' = TRUE
     ELSE UNCHANGED <<paused, pausedByLifecycle>>
  /\ lastOp' = "appStateChange"
  /\ UNCHANGED <<pbNative, pbMounted, isPlaying, cbIsPlaying, showControls,
                 controlsTimeoutRef, playerLoaded>>
  /\ UNCHANGED notPb

\* the unmount cleanup: video.pause(); video.src = ''
PlaybackUnmount ==
  /\ pbMounted
  /\ pbMounted' = FALSE
  /\ paused' = TRUE
  /\ lastOp' = "unmount"
  /\ UNCHANGED <<pbNative, appActive, isPlaying, cbIsPlaying, showControls,
                 controlsTimeoutRef, playerLoaded, pausedByLifecycle>>
  /\ UNCHANGED notPb

PlaybackNext ==
  \/ PlayerLoaded
  \/ \E playOk \in BOOLEAN : togglePlayPause(playOk)
  \/ ContainerClick
  \/ ControlsTimerFires
  \/ MediaEvent
  \/ PlaybackRender
  \/ Ended
  \/ \E isActive \in BOOLEAN : appStateChange(isActive)
  \/ PlaybackUnmount

MobileIdle == FsIdle /\ InitPlayerIdle /\ PlaybackIdle

Init == RouterInit /\ MobileIdle
Next == RouterNext
Spec == Init /\ [][Next]_vars

\* VideoPlayer with fixed props: the parent passes the same props and nobody
\* selects an episode; React runs every scheduled render and every pending
\* effect.
FixedPropsNext ==
  \/ Render
  \/ RunEffects
  \/ ChildInitDone
  \/ ChildInitFail

SpecFixedProps ==
  Init /\ [][FixedPropsNext]_vars /\ WF_vars(Render) /\ WF_vars(RunEffects)

\* The sources the parent passes for an episode (none for the movie itself).
EpisodeSources(ep) ==
  IF ep = "e1" THEN <<"s1", "s2">>
  ELSE IF ep = "e2" THEN <<"s3">>
  ELSE <<>>

\* VideoPlayer on native Android, mounted with the sources of its episode
EpisodesInit ==
  /\ Init
  /\ isNativeP /\ platform = "android"
  /\ videoSources = EpisodeSources(currentEpisodeId)

\* Episode changes: the parent passes another currentEpisodeId, with that
\* episode's sources or, these arriving later, with the old ones; the user
\* selects an episode in MobileVideoPlayer's drawer.
EpisodesNext ==
  \/ Render
  \/ RunEffects
  \/ \E ep \in EpisodeIds \cup {None}, arrived \in BOOLEAN :
       PropsChange(ep, IF arrived THEN EpisodeSources(ep) ELSE videoSources)
  \/ ParentRerender
  \/ \E e \in EpisodeIds, sync \in BOOLEAN, arrived \in BOOLEAN :
       HandleEpisodeSelect(e, sync,
                           IF arrived THEN EpisodeSources(e) ELSE videoSources)
  \/ ChildInitDone
  \/ ChildInitFail

SpecEpisodes ==
  EpisodesInit /\ [][EpisodesNext]_vars
     /\ WF_vars(Render) /\ WF_vars(RunEffects)

InitFullscreen == RouterIdle /\ FsInit /\ InitPlayerIdle /\ PlaybackIdle
SpecFullscreen == InitFullscreen /\ [][FsSequentialNext]_vars

SpecFullscreenOverlap == InitFullscreen /\ [][FsOverlapNext]_vars

InitInitPlayer == RouterIdle /\ FsIdle /\ InitPlayerInit /\ PlaybackIdle
SpecInitPlayer == InitInitPlayer /\ [][InitPlayerNext]_vars

InitPlayback == RouterIdle /\ FsIdle /\ InitPlayerIdle /\ PlaybackInit
SpecPlayback == InitPlayback /\ [][PlaybackNext]_vars

\* ------------------------------------------------------------------------
\* The router's properties
\* ------------------------------------------------------------------------
OnAndroid == isNativeP /\ platform = "android"

\* the URL-resolution effect has settled: nothing is left to render or run
Settled == phase = "idle"

\* the default source as the contract words it: the first source with
\* is_default, else the first source
ContractDefaultSource ==
  LET flagged == SelectSeq(videoSources, LAMBDA id : Catalog[id].is_default)
  IN Catalog[IF Len(flagged) > 0 THEN flagged[1] ELSE videoSources[1]]

ContractType(src) ==
  IF src.source_type = NoString THEN <<>> ELSE toLowerCase(src.source_type)

ContractIsEmbedded(src) ==
  ContractType(src) \in {<<"i","f","r","a","m","e">>, <<"e","m","b","e","d">>}

\* its url, or otherwise the first value of quality_urls; None when neither
\* is usable
ContractDirectUrl(src) ==
  IF src.url \notin {None, ""} THEN src.url
  ELSE IF src.has_quality_urls /\ Len(src.quality_urls) > 0
          /\ src.quality_urls[1] \notin {None, ""}
  THEN src.quality_urls[1]
  ELSE None

ContractPlayable ==
  /\ Len(videoSources) > 0
  /\ ~ContractIsEmbedded(ContractDefaultSource)
  /\ ContractDirectUrl(ContractDefaultSource) # None

\* C1: off native Android (web, native iOS, any non-native runtime) every
\* committed render of VideoPlayer is the web player: never
\* MobileVideoPlayer, never the loading spinner.
C1_WebPlayerOffAndroid ==
  (Mounted /\ ~OnAndroid) => (rendered.view = "shaka" /\ ~child.mounted)

\* native iOS after an episode change: the reset effect has set the
\* loading flag, and the web player is still what is rendered
C1_Witness ==
  /\ isNativeP /\ platform = "ios"
  /\ isLoadingMobileUrl /\ Settled
  /\ prevEpisodeIdRef = "e2"
  /\ rendered.view = "shaka"

\* C2: on native Android, once the effects have settled, a default source
\* that is not iframe/embed and has a direct URL is played by
\* MobileVideoPlayer with videoUrl equal to that URL, and ShakaPlayer is not
\* rendered.
C2_MobilePlayerForDirectUrl ==
  (OnAndroid /\ Settled /\ ContractPlayable) =>
     /\ rendered.view = "mobile"
     /\ rendered.videoUrl = ContractDirectUrl(ContractDefaultSource)
     /\ child.mounted /\ child.videoUrl = rendered.videoUrl

\* two sources, the second flagged default and carrying only quality_urls
C2_Witness ==
  /\ OnAndroid /\ Settled /\ catalogId = "plain"
  /\ videoSources = <<"s1", "s2">>
  /\ rendered.view = "mobile" /\ rendered.videoUrl = "q1"

\* C3: on native Android, once the effects have settled, an iframe/embed
\* default source (any letter case), a default source without usable URL, or
\* no source at all is rendered by ShakaPlayer, and MobileVideoPlayer is not
\* mounted.
C3_WebPlayerForEmbedOrNoUrl ==
  (OnAndroid /\ Settled /\ ~ContractPlayable) =>
     (rendered.view = "shaka" /\ ~child.mounted)

\* a mixed-case "Iframe" source that has a url
C3_Witness ==
  /\ OnAndroid /\ Settled /\ catalogId = "plain"
  /\ videoSources = <<"s3">>
  /\ useShakafallback /\ rendered.view = "shaka"

\* the mapping of a source_type to the mobile player's source type, as the
\* contract words it
ContractMobileType(src) ==
  CASE ContractType(src) \in {<<"h","l","s">>, <<"m","3","u","8">>} -> "hls"
    [] ContractType(src) = <<"d","a","s","h">> -> "dash"
    [] ContractType(src) = <<"m","p","4">> -> "mp4"
    [] OTHER -> "hls"

ResolutionPending ==
  /\ Len(videoSources) > 0
  /\ lastFetchedRef # FetchKey(currentEpisodeId, movieId, ContractDefaultSource)

\* C7: on native Android every committed render made while resolution for
\* the current episode / source is pending shows the loading spinner and
\* neither player.
C7_SpinnerWhilePending ==
  (OnAndroid /\ Mounted /\ ResolutionPending) =>
     (rendered.view = "spinner" /\ ~child.mounted)

C10_MobileSourceTypeMapping ==
  /\ mobileSourceType \in SourceTypes
  /\ child.mounted => child.sourceType \in SourceTypes
  /\ (OnAndroid /\ Settled /\ rendered.view = "mobile") =>
        /\ rendered.sourceType = ContractMobileType(ContractDefaultSource)
        /\ child.sourceType = rendered.sourceType

\* a default source of unknown type "WebM" is played as hls
C10_Witness ==
  /\ OnAndroid /\ Settled /\ catalogId = "oddtype"
  /\ videoSources = <<"s1", "s2">>
  /\ rendered.view = "mobile" /\ rendered.videoUrl = "u2"
  /\ child.sourceType = "hls"

\* ------------------------------------------------------------------------
\* MobileVideoPlayer's properties
\* ------------------------------------------------------------------------
\* hls / dash invocations of initPlayer that have returned
AdaptiveRunsDone ==
  {i \in RunIds : runs[i].pc = "done" /\ runs[i].type # "mp4"}

\* run i handed the stream to the plain media element exactly once
FellBackOnce(i) == runs[i].srcSets = 1 /\ runs[i].loads = 1

\* C5 as stated: an hls / dash initialisation in which the browser lacks
\* support or any step (cleanup, attach, configure, load) failed has set
\* video.src and called load() exactly once.
C5_FallbackOnAnyFailedStep ==
  \A i \in AdaptiveRunsDone :
     (runs[i].cleanupFailed \/ runs[i].failed # "none") => FellBackOnce(i)

\* C5 as amended: an hls / dash initialisation in which the browser lacks
\* support or the polyfill install, attach, configure or load throws sets
\* video.src to videoUrl and calls load() exactly once, creates at most one
\* adaptive player and never rejects; a failing destroy() of the previous
\* player is caught inside cleanupPlayer and does not by itself cause the
\* fallback, so an initialisation without another failure never touches
\* video.src.
C5_FallbackOnInitFailure ==
  /\ [](\A i \in AdaptiveRunsDone :
          /\ ~runs[i].rejected
          /\ runs[i].created <= 1
          /\ runs[i].failed # "none" => FellBackOnce(i)
          /\ runs[i].failed = "none" => (runs[i].srcSets = 0 /\ runs[i].loads = 0))
  /\ [][\A i \in RunIds :
          (runs[i].pc \notin {"done", "unused"} /\ runs'[i].pc = "done"
             /\ runs'[i].failed # "none") =>
              videoSrc' = runs'[i].url]_vars

\* the second initialisation: destroy() of the first player was rejected,
\* then player.load was rejected and the plain media element took over
C5_Witness ==
  /\ runs[2].pc = "done" /\ runs[2].type # "mp4"
  /\ runs[2].cleanupFailed /\ runs[2].failed = "load"
  /\ FellBackOnce(2) /\ videoSrc = runs[2].url

\* C6: whichever of the orientation and fullscreen calls reject, an
\* invocation of toggleFullscreen that started with isFullscreen = false
\* ends with isFullscreen = true and both fullscreen classes set, one that
\* started with isFullscreen = true ends with isFullscreen = false and both
\* classes removed, and between invocations the rendered component's classes
\* agree with isFullscreen.
C6_ToggleCompletesDespiteRejections ==
  /\ [][\A i \in ToggleSlots :
          (toggles[i].pc # "idle" /\ toggles'[i].pc = "idle") =>
             /\ toggles[i].mode = "enter" =>
                  (isFullscreen' /\ containerFs' /\ bodyFs')
             /\ toggles[i].mode = "exit" =>
                  (~isFullscreen' /\ ~containerFs' /\ ~bodyFs')]_vars
  /\ [][\A i \in ToggleSlots :
          (toggles[i].pc = "idle" /\ toggles'[i].pc # "idle") =>
             (toggles'[i].mode = "enter" <=> ~cbIsFullscreen)]_vars
  /\ []((NoToggleInFlight /\ cbIsFullscreen = isFullscreen) =>
          (containerFs = isFullscreen /\ bodyFs = isFullscreen))

\* On a native platform an exit has completed although exitFullscreen was
\* rejected (the document is still in web fullscreen) and the portrait lock
\* was rejected (the orientation is still landscape).
C6_Witness ==
  /\ fsNative /\ NoToggleInFlight
  /\ ~isFullscreen /\ ~cbIsFullscreen /\ ~containerFs /\ ~bodyFs
  /\ webFs /\ orientation = "landscape"

\* C9: on a native platform the step in which the app becomes inactive
\* leaves the video paused; no app state change turns a paused video into a
\* playing one; and a video the lifecycle handler paused stays paused until
\* the user presses play.
C9_LifecyclePausesNeverResumes ==
  /\ [][(pbNative /\ pbMounted /\ appActive /\ ~appActive') => paused']_vars
  /\ [][(appActive # appActive' /\ paused) => paused']_vars
  /\ [][(pausedByLifecycle /\ ~pausedByLifecycle') =>
          lastOp' = "togglePlayPause"]_vars
  /\ [](pausedByLifecycle => paused)

\* the app is active again and the video the handler paused is still paused
C9_Witness ==
  /\ pbNative /\ pbMounted /\ appActive
  /\ pausedByLifecycle /\ paused /\ lastOp = "appStateChange"

\* ------------------------------------------------------------------------
\* The URL-resolution effect's termination
\* ------------------------------------------------------------------------
\* the fetch key of the current episode / default source is recorded and
\* the skip condition of the URL-resolution effect holds
FetchKeyRecorded ==
  /\ Len(videoSources) > 0
  /\ lastFetchedRef = FetchKey(currentEpisodeId, movieId, ContractDefaultSource)
  /\ (Truthy(mobileVideoUrl) \/ useShakafallback)

\* a step in which the effects of the last render run
EffectsStep == phase = "committed" /\ phase' # "committed"

\* C11: on native Android every pass of the effects ends with
\* isLoadingMobileUrl false and, given a source, with the fetch key of the
\* current episode / source recorded; a pass that starts with the key
\* recorded takes the skip branch and changes no state; so with fixed props
\* the router settles (no render or effect pending) with isLoadingMobileUrl
\* false and stays settled.
C11_UrlEffectSettles ==
  /\ [][(OnAndroid /\ EffectsStep) =>
          /\ ~isLoadingMobileUrl'
          /\ Len(videoSources) > 0 => FetchKeyRecorded']_vars
  /\ [][(OnAndroid /\ EffectsStep /\ FetchKeyRecorded
           /\ prevEpisodeIdRef = currentEpisodeId) =>
          /\ UNCHANGED <<mobileVideoUrl, mobileSourceType, useShakafallback,
                         lastFetchedRef, prevEpisodeIdRef>>
          /\ phase' = IF isLoadingMobileUrl THEN "dirty" ELSE "idle"]_vars
  /\ <>[](Settled /\ (OnAndroid => ~isLoadingMobileUrl))

\* the effect wrote useShakafallback, was re-run for it, skipped, and the
\* router is settled
C11_Witness ==
  /\ OnAndroid /\ Settled /\ FetchKeyRecorded
  /\ useShakafallback /\ ~isLoadingMobileUrl /\ effDeps.fb

\* ------------------------------------------------------------------------
\* Episode changes
\* ------------------------------------------------------------------------
\* the committed render is the player the current default source determines
RenderedAsDetermined ==
  IF ContractPlayable
  THEN /\ rendered.view = "mobile"
       /\ rendered.videoUrl = ContractDirectUrl(ContractDefaultSource)
       /\ rendered.sourceType = ContractMobileType(ContractDefaultSource)
       /\ child.mounted /\ child.videoUrl = rendered.videoUrl
  ELSE rendered.view = "shaka" /\ ~child.mounted

\* a render pass that also changes the component's state: an episode
\* selection through handleEpisodeSelect
SelectionStep ==
  /\ phase # "committed" /\ phase' = "committed"
  /\ stateVars' # stateVars

\* C12: on native Android an episode selection with a callback clears the
\* fetch key, mobileVideoUrl and the fallback flag, sets loading and shows
\* the spinner; without a callback handleEpisodeSelect changes nothing, so
\* the spinner is never rendered; the effects pass after an episode change
\* resolves again for the current episode (key recorded, loading false);
\* a loading state always ends; and once the props stay fixed the router
\* settles on the player the current default source determines.
C12_EpisodeChangeResolvesAgain ==
  /\ [][SelectionStep =>
          /\ hasOnEpisodeSelect /\ child.mounted
          /\ lastFetchedRef' = Null /\ mobileVideoUrl' = Null
          /\ isLoadingMobileUrl' /\ ~useShakafallback'
          /\ rendered'.view = "spinner" /\ ~child'.mounted]_vars
  /\ [](~hasOnEpisodeSelect => rendered.view # "spinner")
  /\ [][(EffectsStep /\ prevEpisodeIdRef # currentEpisodeId) =>
          /\ prevEpisodeIdRef' = currentEpisodeId
          /\ ~isLoadingMobileUrl'
          /\ Len(videoSources) > 0 => FetchKeyRecorded'
          /\ mobileVideoUrl' =
               (IF ContractPlayable
                THEN ContractDirectUrl(ContractDefaultSource) ELSE Null)]_vars
  /\ (isLoadingMobileUrl ~> ~isLoadingMobileUrl)
  /\ (<>[][FixedPropsNext]_vars) =>
        <>[](Settled /\ ~isLoadingMobileUrl /\ RenderedAsDetermined)

\* The episode changed from e1 to e2 while e1's sources are still passed:
\* the resolution ran again under e2's fetch key and the router has settled
\* on the player those sources determine.
C12_Witness ==
  /\ Settled /\ catalogId = "plain" /\ hasOnEpisodeSelect
  /\ currentEpisodeId = "e2" /\ prevEpisodeIdRef = "e2"
  /\ videoSources = <<"s1", "s2">> /\ lastFetchedRef = "e2-s2"
  /\ ~isLoadingMobileUrl /\ rendered.view = "mobile" /\ RenderedAsDetermined

\* ------------------------------------------------------------------------
\* Overlapping fullscreen toggles
\* ------------------------------------------------------------------------
\* a step in which an invocation of toggleFullscreen returns: one that was
\* awaiting, or one that ran without awaiting at all
ToggleCompletes ==
  \/ \E i \in ToggleSlots : toggles[i].pc # "idle" /\ toggles'[i].pc = "idle"
  \/ toggles' = toggles /\ containerFs' # containerFs

\* C13: every completed invocation of toggleFullscreen flips isFullscreen
\* (so after n of them, from not-fullscreen, it is true exactly when n is
\* odd), overlapping invocations included, and whenever no invocation is in
\* progress isFullscreen is true exactly when the container and the body
\* carry their fullscreen classes.
C13_EveryToggleFlips ==
  [][/\ ToggleCompletes => isFullscreen' = ~isFullscreen
     /\ NoToggleInFlight' =>
          (isFullscreen' <=> (containerFs' /\ bodyFs'))]_vars

\* ------------------------------------------------------------------------
\* The controls overlay's auto-hide timer
\* ------------------------------------------------------------------------
\* a step made by an interaction that calls resetControlsTimeout
InteractionStep ==
  /\ lastOp' \in {"togglePlayPause", "resetControlsTimeout"}
  /\ <<showControls, controlsTimeoutRef, paused, lastOp>>' #
       <<showControls, controlsTimeoutRef, paused, lastOp>>

\* the pending hide timer fires, 3 seconds after the last interaction
HideTimerStep == controlsTimeoutRef # "none" /\ controlsTimeoutRef' = "none"

\* C14: every interaction that calls resetControlsTimeout shows the
\* controls and leaves a hide timer pending, and when the timer fires while
\* the video is playing (the play event handled and rendered) the controls
\* become hidden, also when the last interaction was the press that started
\* playback.
C14_ControlsHideWhilePlaying ==
  [][/\ InteractionStep => (showControls' /\ controlsTimeoutRef' # "none")
     /\ (HideTimerStep /\ ~paused /\ isPlaying /\ cbIsPlaying) =>
          ~showControls']_vars

\* ------------------------------------------------------------------------
\* The adaptive player's lifecycle
\* ------------------------------------------------------------------------
\* no initPlayer run and no cleanup is awaiting anything
InitQuiescent ==
  /\ \A i \in RunIds : runs[i].pc \in {"unused", "done"}
  /\ effectCleanups = {}

\* C15: at most one adaptive-player instance that is not destroyed is
\* attached to the video element at any time, and once the component is
\* unmounted and all asynchronous work has finished every instance that
\* initPlayer created has been destroyed.
C15_PlayersDestroyedAtMostOneAttached ==
  /\ Cardinality({i \in RunIds : players[i] = "attached"}) <= 1
  /\ (~mvMounted /\ InitQuiescent) =>
        \A i \in RunIds : players[i] \in {"none", "destroyed"}

\* ------------------------------------------------------------------------
\* Superseded initPlayer runs
\* ------------------------------------------------------------------------
\* run i hands the stream to the plain media element in this step
WritesVideoSrc(i) ==
  /\ runs[i].pc \notin {"unused", "done"}
  /\ runs'[i].pc = "done" /\ runs'[i].srcSets > runs[i].srcSets

\* C16: a run of initPlayer writes video.src only while the component is
\* mounted and the run is the latest one; so once all asynchronous work has
\* finished video.src is empty after unmount, and is the current videoUrl
\* when the latest run handed the stream to the plain media element.
C16_StaleRunNeverWritesVideoSrc ==
  [][/\ \A i \in RunIds : WritesVideoSrc(i) => (mvMounted /\ i = NumRuns)
     /\ (InitQuiescent' /\ ~mvMounted') => videoSrc' = ""
     /\ (InitQuiescent' /\ mvMounted' /\ NumRuns' > 0
           /\ runs'[NumRuns'].srcSets > 0) => videoSrc' = propVideoUrl']_vars

====
